---- MODULE Spec2Model ----
(***************************************************************************)
(* The mhrs relay server: main, handleSignals, reloadConfig,               *)
(* acceptConnections, handleConnection, processEmail, sendEmail, and the   *)
(* configuration loader config.Load / validateConfig.                      *)
(*                                                                         *)
(* Every goroutine is a process with a program counter.  One action is one *)
(* step between two points where another goroutine can run.  Time is not   *)
(* measured: a timer, once armed, may expire at any later moment.          *)
(***************************************************************************)
EXTENDS Integers, Sequences, FiniteSets, TLC

(* ------------------------------ bounds --------------------------------- *)

\* Connections the clients open during one run.
MaxConns == 1

(* --------------------------- program constants ------------------------- *)

\* make(chan os.Signal, 1)
SigBuf == 1

Conns == 1..MaxConns

Signals == {"SIGHUP", "SIGINT", "SIGTERM"}

\* The signals of the switch case that calls cancel().
TermSignalsWithHangup == {"SIGINT", "SIGTERM", "SIGHUP"}

TermSignals == {"SIGINT", "SIGTERM"}

(* ----------------------------- configuration --------------------------- *)

\* config.Config, the fields the loader validates and the server reads.
\* Durations are in seconds.  Logging.Name and Logging.Directory are as Load
\* sets them for the application name "mhrs".
defaultConfig ==
    [ Host         |-> "smtp.gmail.com",
      Port         |-> "587",
      FromAddr     |-> "user@example.com",
      AuthUser     |-> "user@example.com",
      AuthPass     |-> "0123456789AB",
      InternalAddr |-> "localhost:2525",
      ExternalAddr |-> "localhost:8845",
      Timeout      |-> 180,
      RetryDelay   |-> 10,
      MaxRetries   |-> 3,
      LogDir       |-> "/var/log/mhrs",
      LogBuf       |-> 1000 ]

Fields == DOMAIN defaultConfig

\* The empty set of overrides: a configuration file that sets nothing.
NoValues == [k \in {} |-> 0]

\* What may be found at /usr/local/etc/mhrs/mhrs.toml when Load runs.
\* kind: "nodir" (os.MkdirAll of the directory fails), "absent" (os.Stat
\* fails), "unreadable" (os.ReadFile fails), "garbage" (tinytoml.Unmarshal
\* fails), "ok" (parsed; vals are the keys the file sets).
Files ==
    { [kind |-> "nodir",      vals |-> NoValues],
      [kind |-> "absent",     vals |-> NoValues],
      [kind |-> "unreadable", vals |-> NoValues],
      [kind |-> "garbage",    vals |-> NoValues],
      [kind |-> "ok",         vals |-> NoValues],
      [kind |-> "ok",         vals |-> [RetryDelay |-> 30, MaxRetries |-> 2]],
      [kind |-> "ok",         vals |-> [MaxRetries |-> 0]],
      [kind |-> "ok",         vals |-> [Host |-> ""]] }

\* tinytoml.Unmarshal(data, &config): overwrites only the specified values.
Unmarshal(config, vals) ==
    [k \in DOMAIN config |-> IF k \in DOMAIN vals THEN vals[k] ELSE config[k]]

\* validateConfig: TRUE when it returns nil.
validateConfigLoggingOnly(config) ==
    ~ ( \/ config.LogDir = ""
        \/ config.LogBuf <= 0 )

validateConfigAnyRetries(config) ==
    /\ ~ ( \/ config.Host = ""
           \/ config.Port = ""
           \/ config.FromAddr = ""
           \/ config.AuthUser = ""
           \/ config.AuthPass = "" )
    /\ ~ ( \/ config.InternalAddr = ""
           \/ config.Timeout <= 0
           \/ config.RetryDelay <= 0 )
    /\ ~ ( \/ config.LogDir = ""
           \/ config.LogBuf <= 0 )

validateConfig(config) ==
    /\ ~ ( \/ config.Host = ""
           \/ config.Port = ""
           \/ config.FromAddr = ""
           \/ config.AuthUser = ""
           \/ config.AuthPass = "" )
    /\ ~ ( \/ config.InternalAddr = ""
           \/ config.Timeout <= 0
           \/ config.RetryDelay <= 0
           \/ config.MaxRetries <= 0 )
    /\ ~ ( \/ config.LogDir = ""
           \/ config.LogBuf <= 0 )

\* config.Load: (config, configExists, err).  On an error the returned
\* pointer is nil; cfg then holds the defaults only as a placeholder that no
\* caller reads.
Load(file) ==
    LET exists == file.kind \notin {"nodir", "absent"}
        config == IF file.kind = "ok"
                  THEN Unmarshal(defaultConfig, file.vals)
                  ELSE defaultConfig
        err    == \/ file.kind \in {"nodir", "unreadable", "garbage"}
                  \/ ~ validateConfig(config)
    IN  [ cfg    |-> IF err THEN defaultConfig ELSE config,
          exists |-> exists,
          err    |-> err ]

(* -------------------------------- state -------------------------------- *)

VARIABLES
    mainPc,        \* main: "load", "loginit", "listen", "running", "flush", "exited"
    exitCode,      \* the process's exit status, -1 while it runs
    drainElapsed,  \* the 5 s shutdown deadline expired before logger.Shutdown returned
    cfg,           \* the config.Config object every goroutine holds a pointer to
    cancelled,     \* ctx of main is done
    sigChan,       \* the buffered channel signal.Notify sends to
    sigPc,         \* handleSignals: "off", "wait", "load", "init", "copy", "exit"
    newConfig,     \* reloadConfig's newConfig, the defaults outside reloadConfig
    accPc,         \* acceptConnections: "off", "accept", "stopped"
    pc,            \* per connection, see ConnPcs
    attempt,       \* processEmail's loop variable
    timerFired,    \* the channel of time.After(RetryDelay) is ready
    expired,       \* the deadline of emailCtx has passed
    \* history
    termDelivered, \* a SIGINT or SIGTERM reached the process while it was running
    reloadBad,     \* the reload in progress, or the last one, has failed
    calls,         \* number of sendEmail calls of the connection's delivery
    succ,          \* number of those that returned nil
    snap,          \* cfg when the request was handed to processEmail
    gap,           \* how the delivery got from its last failed attempt to the loop head
    cancelInWait,  \* ctx was cancelled while the delivery was in its retry select
    expireInWait,  \* the deadline of emailCtx passed while the delivery was in its retry select
    reloaded,      \* cfg was written while the delivery was running
    wire,          \* the objects the client sent that the handler's decoder has not returned
    sock,          \* the connection: "none", "open", "closed"
    written,       \* number of bytes the server has written to the connection
    cancelInFlight,\* the number of the attempt during which ctx was cancelled, 0 if none
    \* the adapters mhrc and submitf, see the section on adapters
    adWho,         \* which adapter runs sendToMHRS: "none", "mhrc", "submitf"
    adReq,         \* the EmailRequest it sends
    adPc,          \* sendToMHRS: "off", "dial", "deadline", "write", "done", "failed"
    adOut          \* what it has written to its connection

mainVars == <<mainPc, exitCode, drainElapsed>>

sigVars == <<sigChan, sigPc, newConfig, termDelivered, reloadBad>>

connVars == <<pc, attempt, timerFired, expired, calls, succ, snap, gap, cancelInWait,
              expireInWait, reloaded, wire, sock, written, cancelInFlight>>

adVars == <<adWho, adReq, adPc, adOut>>

vars == <<mainVars, cfg, cancelled, sigVars, accPc, connVars, adVars>>

\* "idle":     the client has not connected yet
\* "decode":   handleConnection, blocked in decoder.Decode
\* "start":    emailCtx made, goroutine spawned, processEmail not yet running
\* "loop":     processEmail at the loop condition
\* "auth":     sendEmail entered, before smtp.PlainAuth
\* "tls":      sendEmail before SendWithStartTLS
\* "inflight": SendWithStartTLS in progress
\* "sel":      time.After evaluated, select not yet polled
\* "parked":   blocked in the select
\* "ret":      processEmail returned, handleConnection in wg.Wait
\* "closed":   handleConnection returned, connection closed
\* "killed":   the process exited while the handler was running
ConnPcs == {"idle", "decode", "start", "loop", "auth", "tls", "inflight",
            "sel", "parked", "ret", "closed", "killed"}

\* The handler or its delivery is still running.
Busy(c) == pc[c] \notin {"idle", "closed", "killed"}

\* The delivery is inside a transport attempt.
InAttempt(c) == pc[c] \in {"auth", "tls", "inflight"}

\* processEmail is running, or about to be called with emailCtx made.
InDelivery(c) == pc[c] \in {"start", "loop", "auth", "tls", "inflight", "sel", "parked"}

\* The process has not exited and its goroutines run.
Alive == mainPc \in {"running", "flush"}

\* emailCtx.Done() is ready: the parent was cancelled or the deadline passed.
ctxDoneParentOnly(c) == cancelled

ctxDone(c) == cancelled \/ expired[c]

\* The number of bytes the step of handleConnection from p to q writes to
\* the connection: the function holds conn and never calls conn.Write.
WrittenAtOnDecodeError(p, q) == IF p = "decode" /\ q = "closed" THEN 1 ELSE 0

WrittenAt(p, q) == 0

\* A []byte: the nil slice, or a slice holding the byte values b (which
\* may be none).
NilBytes == [isNil |-> TRUE, bytes |-> <<>>]

Bytes(b) == [isNil |-> FALSE, bytes |-> b]

\* EmailRequest, the zero value.
NoRequest == [Recipient |-> "", Subject |-> "", Body |-> NilBytes]

\* The fields of cfg that the step of a handler or delivery from p to q
\* reads.  A goroutine that ends with the process reads nothing.
ReadsAt(p, q) ==
    IF q = "killed" THEN {}
    ELSE IF p = "decode" /\ q = "start" THEN {"Timeout"}
    ELSE IF p = "start" THEN {"FromAddr"}
    ELSE IF p = "loop" THEN {"MaxRetries"}
    ELSE IF p = "auth" THEN {"AuthUser", "AuthPass", "Host"}
    ELSE IF p = "tls" THEN {"Host", "Port"}
    ELSE IF p = "inflight" /\ q = "sel" THEN {"Host", "Port", "MaxRetries", "RetryDelay"}
    ELSE IF p = "inflight" /\ q = "loop" THEN {"Host", "Port", "MaxRetries"}
    ELSE {}

\* What a step that reads the fields fs sees.
Read(fs) == [f \in fs |-> cfg[f]]

\* The server before main has run.
ServerInit ==
    /\ mainPc = "load"
    /\ exitCode = -1
    /\ drainElapsed = FALSE
    /\ cfg = defaultConfig
    /\ cancelled = FALSE
    /\ sigChan = <<>>
    /\ sigPc = "off"
    /\ newConfig = defaultConfig
    /\ accPc = "off"
    /\ pc = [c \in Conns |-> "idle"]
    /\ attempt = [c \in Conns |-> 0]
    /\ timerFired = [c \in Conns |-> FALSE]
    /\ expired = [c \in Conns |-> FALSE]
    /\ termDelivered = FALSE
    /\ reloadBad = FALSE
    /\ calls = [c \in Conns |-> 0]
    /\ succ = [c \in Conns |-> 0]
    /\ snap = [c \in Conns |-> defaultConfig]
    /\ gap = [c \in Conns |-> "first"]
    /\ cancelInWait = [c \in Conns |-> FALSE]
    /\ expireInWait = [c \in Conns |-> FALSE]
    /\ reloaded = [c \in Conns |-> FALSE]
    /\ wire = [c \in Conns |-> <<>>]
    /\ sock = [c \in Conns |-> "none"]
    /\ written = [c \in Conns |-> 0]
    /\ cancelInFlight = [c \in Conns |-> 0]

\* The server starts; no adapter is looked at.
Init ==
    /\ ServerInit
    /\ adWho = "none"
    /\ adReq = NoRequest
    /\ adPc = "off"
    /\ adOut = <<>>

(* --------------------------------- main -------------------------------- *)

\* config.Load at startup; config.Save when there was no file.
MainLoad ==
    /\ mainPc = "load"
    /\ \E file \in Files :
         LET res == Load(file)
         IN  IF res.err
             THEN /\ mainPc' = "exited"
                  /\ exitCode' = 1
                  /\ cfg' = cfg
             ELSE /\ mainPc' = "loginit"
                  /\ exitCode' = exitCode
                  /\ cfg' = res.cfg
    /\ UNCHANGED <<adVars, drainElapsed, cancelled, sigVars, accPc, connVars>>

\* logger.Init at startup.
MainLogInit ==
    /\ mainPc = "loginit"
    /\ \E ok \in BOOLEAN :
         IF ok
         THEN /\ mainPc' = "listen"
              /\ exitCode' = exitCode
         ELSE /\ mainPc' = "exited"
              /\ exitCode' = 1
    /\ UNCHANGED <<adVars, drainElapsed, cfg, cancelled, sigVars, accPc, connVars>>

\* net.Listen, signal.Notify, and the two go statements.  When Listen fails
\* main returns, which ends the process with status 0.
MainListen ==
    /\ mainPc = "listen"
    /\ \E ok \in BOOLEAN :
         IF ok
         THEN /\ mainPc' = "running"
              /\ exitCode' = exitCode
              /\ sigPc' = "wait"
              /\ accPc' = "accept"
         ELSE /\ mainPc' = "exited"
              /\ exitCode' = 0
              /\ sigPc' = sigPc
              /\ accPc' = accPc
    /\ UNCHANGED <<adVars, drainElapsed, cfg, cancelled, sigChan, newConfig,
                   termDelivered, reloadBad, connVars>>

\* <-ctx.Done() returns.
MainCtxDone ==
    /\ mainPc = "running"
    /\ cancelled
    /\ mainPc' = "flush"
    /\ UNCHANGED <<adVars, exitCode, drainElapsed, cfg, cancelled, sigVars, accPc,
                   connVars>>

\* How logger.Shutdown(shutdownCtx) can return: FALSE, the flush finished;
\* TRUE, the deadline of shutdownCtx passed first.  shutdownCtx is made from
\* context.Background() with a timeout, so the second is always possible.
ShutdownOutcomesNoDeadline == {FALSE}

ShutdownOutcomes == BOOLEAN

\* logger.Shutdown(shutdownCtx) returns, because the flush finished or
\* because the 5 s deadline of shutdownCtx passed; main returns and the
\* process ends, whatever its goroutines are doing: they and their locals
\* are gone, and the connections still open are closed by the kernel.
MainShutdown ==
    /\ mainPc = "flush"
    /\ \E timedOut \in ShutdownOutcomes : drainElapsed' = timedOut
    /\ mainPc' = "exited"
    /\ exitCode' = 0
    /\ sigChan' = <<>>
    /\ sigPc' = "off"
    /\ newConfig' = defaultConfig
    /\ accPc' = "off"
    /\ pc' = [c \in Conns |-> IF Busy(c) THEN "killed" ELSE pc[c]]
    /\ attempt' = [c \in Conns |-> 0]
    /\ timerFired' = [c \in Conns |-> FALSE]
    /\ expired' = [c \in Conns |-> FALSE]
    /\ calls' = [c \in Conns |-> 0]
    /\ succ' = [c \in Conns |-> 0]
    /\ snap' = [c \in Conns |-> defaultConfig]
    /\ gap' = [c \in Conns |-> "first"]
    /\ cancelInWait' = [c \in Conns |-> FALSE]
    /\ expireInWait' = [c \in Conns |-> FALSE]
    /\ reloaded' = [c \in Conns |-> FALSE]
    /\ wire' = [c \in Conns |-> IF Busy(c) THEN <<>> ELSE wire[c]]
    /\ sock' = [c \in Conns |-> IF sock[c] = "open" THEN "closed" ELSE sock[c]]
    /\ cancelInFlight' = [c \in Conns |-> 0]
    /\ UNCHANGED <<adVars, cfg, cancelled, termDelivered, reloadBad, written>>

(* ------------------------- signals and reload -------------------------- *)

\* The cases of the retry select that can proceed.
SelectReady(timer, done) == (IF timer THEN {"timer"} ELSE {}) \cup
                            (IF done THEN {"ctx"} ELSE {})

\* Where each case of the retry select leads: continue, or return.
SelectBranchAlwaysContinue(br) == "loop"

SelectBranchWaitAgain(br) == IF br = "timer" THEN "loop" ELSE "sel"

SelectBranch(br) == IF br = "timer" THEN "loop" ELSE "ret"

\* The deliveries in cs leave the retry select by the case br; continue
\* runs the loop's post statement attempt++.
LeaveSelect(cs, br) ==
    /\ pc' = [c \in Conns |-> IF c \in cs THEN SelectBranch(br) ELSE pc[c]]
    /\ attempt' = [c \in Conns |->
           IF c \in cs /\ SelectBranch(br) = "loop" THEN attempt[c] + 1 ELSE attempt[c]]
    /\ gap' = [c \in Conns |-> IF c \in cs THEN br ELSE gap[c]]
    /\ timerFired' = [c \in Conns |-> IF c \in cs THEN FALSE ELSE timerFired[c]]

\* The deliveries blocked in the retry select.
Parked == {c \in Conns : pc[c] = "parked"}

\* The operating system delivers a signal.  signal.Notify's send does not
\* block: the signal is dropped when the channel buffer is full.
SignalArrive ==
    /\ Alive
    /\ \E sig \in Signals :
         /\ sigChan' = IF Len(sigChan) < SigBuf THEN Append(sigChan, sig) ELSE sigChan
         /\ termDelivered' = (termDelivered \/ (sig \in TermSignals /\ ~cancelled))
    /\ UNCHANGED <<adVars, mainVars, cfg, cancelled, sigPc, newConfig, reloadBad,
                   accPc, connVars>>

\* The cases of handleSignals' select that can proceed.
SignalReady == (IF cancelled THEN {"done"} ELSE {}) \cup
               (IF sigChan # <<>> THEN {"sig"} ELSE {})

\* handleSignals after cancel(): it returns.
AfterCancelKeepListening == "wait"

AfterCancel == "exit"

\* handleSignals: one pass of the select and the switch.  SIGHUP enters
\* reloadConfig; SIGINT and SIGTERM call cancel() and return.  cancel()
\* closes ctx.Done(), and with it the Done channel of every emailCtx: the
\* deliveries blocked in the retry select resume on that case.
SigSelect ==
    /\ Alive
    /\ sigPc = "wait"
    /\ \E br \in SignalReady :
         IF br = "done"
         THEN /\ sigPc' = "exit"
              /\ UNCHANGED <<sigChan, cancelled, reloadBad, pc, attempt,
                              gap, timerFired, cancelInWait, cancelInFlight>>
         ELSE /\ sigChan' = Tail(sigChan)
              /\ IF Head(sigChan) \notin TermSignals
                 THEN /\ sigPc' = "load"
                      /\ reloadBad' = FALSE
                      /\ UNCHANGED <<cancelled, pc, attempt, gap, timerFired,
                                      cancelInWait, cancelInFlight>>
                 ELSE /\ sigPc' = AfterCancel
                      /\ cancelled' = TRUE
                      /\ LeaveSelect(Parked, "ctx")
                      /\ cancelInWait' = [c \in Conns |->
                             cancelInWait[c] \/ (~cancelled /\ pc[c] \in {"sel", "parked"})]
                      /\ cancelInFlight' = [c \in Conns |->
                             IF ~cancelled /\ InAttempt(c) THEN calls[c]
                                                           ELSE cancelInFlight[c]]
                      /\ UNCHANGED reloadBad
    /\ UNCHANGED <<adVars, mainVars, cfg, newConfig, termDelivered, accPc, expired, calls,
                   succ, snap, expireInWait, reloaded, wire, sock, written>>

\* reloadConfig after config.Load: where it goes on.
ReloadAfterLoadAnyFile(res) == IF res.err THEN "wait" ELSE "init"

ReloadAfterLoad(res) ==
    IF res.err THEN "wait"
    ELSE IF ~res.exists THEN "wait"
    ELSE "init"

\* reloadConfig: config.Load and the two checks of its result.
ReloadLoad ==
    /\ Alive
    /\ sigPc = "load"
    /\ \E file \in Files :
         LET res == Load(file)
         IN  /\ sigPc' = ReloadAfterLoad(res)
             /\ newConfig' = IF ReloadAfterLoad(res) = "wait" THEN defaultConfig
                                                           ELSE res.cfg
             /\ reloadBad' = (res.err \/ ~res.exists)
    /\ UNCHANGED <<adVars, mainVars, cfg, cancelled, sigChan, termDelivered,
                   accPc, connVars>>

\* reloadConfig: logger.Init on the new logging section.  On success the
\* assignment *cfg = *newConfig begins.
ReloadLogInit ==
    /\ Alive
    /\ sigPc = "init"
    /\ \E ok \in BOOLEAN :
         IF ok
         THEN /\ sigPc' = IF cfg = newConfig THEN "wait" ELSE "copy"
              /\ newConfig' = IF cfg = newConfig THEN defaultConfig ELSE newConfig
              /\ reloadBad' = reloadBad
         ELSE /\ sigPc' = "wait"
              /\ newConfig' = defaultConfig
              /\ reloadBad' = TRUE
    /\ UNCHANGED <<adVars, mainVars, cfg, cancelled, sigChan,
                   termDelivered, accPc, connVars>>

\* *cfg = *newConfig is a plain, unsynchronised copy of the struct: the
\* fields get their new values one after the other, in no fixed order, and
\* the other goroutines run in between.  A field that already holds its new
\* value needs no step.  The copy is over when cfg equals newConfig.
ReloadCopy ==
    /\ Alive
    /\ sigPc = "copy"
    /\ \E f \in Fields :
         /\ cfg[f] # newConfig[f]
         /\ cfg' = [cfg EXCEPT ![f] = newConfig[f]]
    /\ sigPc' = IF cfg' = newConfig THEN "wait" ELSE "copy"
    /\ newConfig' = IF cfg' = newConfig THEN defaultConfig ELSE newConfig
    /\ reloaded' = [c \in Conns |-> reloaded[c] \/ InDelivery(c)]
    /\ UNCHANGED <<adVars, mainVars, cancelled, sigChan, termDelivered,
                   reloadBad, accPc, pc, attempt, timerFired, expired, calls,
                   succ, snap, gap, cancelInWait, expireInWait, wire, sock, written,
                   cancelInFlight>>

(* -------------------------------- acceptor ----------------------------- *)

\* What a client writes to its connection: one well-formed EmailRequest,
\* something json.Decoder cannot decode into one ("bad": malformed, or cut
\* off by the end of the stream), two well-formed requests, or nothing at
\* all, the connection kept open.
Wires == { <<"good">>, <<"bad">>, <<"good", "good">>, <<>> }

\* acceptConnections: listener.Accept returns a connection and
\* handleConnection is started on it.  The listener stays open until main
\* returns.
Accept(c) ==
    /\ Alive
    /\ accPc = "accept"
    /\ pc[c] = "idle"
    /\ \A d \in Conns : d < c => pc[d] # "idle"
    /\ pc' = [pc EXCEPT ![c] = "decode"]
    /\ sock' = [sock EXCEPT ![c] = "open"]
    /\ \E w \in Wires : wire' = [wire EXCEPT ![c] = w]
    /\ UNCHANGED <<adVars, mainVars, cfg, cancelled, sigVars, accPc, attempt, timerFired,
                   expired, calls, succ, snap, gap, cancelInWait,
                   expireInWait, reloaded, written, cancelInFlight>>

\* acceptConnections after a failed Accept: the select on ctx.Done() with
\* its default case.
AfterAcceptErrorAlwaysStop(done) == "stopped"

AfterAcceptError(done) == IF done THEN "stopped" ELSE "accept"

\* acceptConnections: listener.Accept returns an error.
AcceptError ==
    /\ Alive
    /\ accPc = "accept"
    /\ accPc' = AfterAcceptError(cancelled)
    /\ UNCHANGED <<adVars, mainVars, cfg, cancelled, sigVars, connVars>>

(* --------------------- connection handler and delivery ----------------- *)

\* defer conn.Close(): what a return of handleConnection does to the
\* connection.
NoDeferredClose(s) == s

DeferredClose(s) == "closed"

\* handleConnection after decoder.Decode: on an error it returns.
AfterDecodeIgnoreError(good) == "start"

AfterDecode(good) == IF good THEN "start" ELSE "closed"

\* handleConnection after wg.Wait: it returns.
AfterWaitDecodeAgain == "decode"

AfterWait == "closed"

\* handleConnection: decoder.Decode returns; it blocks in conn.Read, which
\* has no deadline, for as long as the client has sent nothing.  On an
\* error the handler returns and the deferred conn.Close runs.  Otherwise
\* it makes emailCtx with the deadline cfg.Server.Timeout and starts the
\* delivery goroutine.
Decode(c) ==
    /\ Alive
    /\ pc[c] = "decode"
    /\ wire[c] # <<>>
    /\ LET good == Head(wire[c]) = "good"
       IN  /\ pc' = [pc EXCEPT ![c] = AfterDecode(good)]
           /\ IF AfterDecode(good) = "start"
              THEN /\ snap' = [snap EXCEPT ![c] = cfg]
                   /\ sock' = sock
              ELSE /\ snap' = snap
                   /\ sock' = [sock EXCEPT ![c] = DeferredClose(@)]
           /\ wire' = [wire EXCEPT ![c] = IF good THEN Tail(@) ELSE @]
           /\ written' = [written EXCEPT ![c] = @ + WrittenAt("decode", AfterDecode(good))]
    /\ UNCHANGED <<adVars, mainVars, cfg, cancelled, sigVars, accPc, attempt, timerFired,
                   expired, calls, succ, gap, cancelInWait, expireInWait, reloaded,
                   cancelInFlight>>

\* processEmail is called: it builds the message with cfg.SMTP.FromAddr and
\* sets attempt to 0.
ProcStart(c) ==
    /\ Alive
    /\ pc[c] = "start"
    /\ pc' = [pc EXCEPT ![c] = "loop"]
    /\ attempt' = [attempt EXCEPT ![c] = 0]
    /\ UNCHANGED <<adVars, mainVars, cfg, cancelled, sigVars, accPc, timerFired, expired,
                   calls, succ, snap, gap, cancelInWait,
                   expireInWait, reloaded, wire, sock, written,
                   cancelInFlight>>

\* The loop condition of processEmail.
LoopCondInclusive(att, maxRetries) == att <= maxRetries

LoopCond(att, maxRetries) == att < maxRetries

\* processEmail: the loop condition, read from cfg on every pass; when it
\* holds sendEmail is called, otherwise processEmail returns.
LoopCheck(c) ==
    /\ Alive
    /\ pc[c] = "loop"
    /\ IF LoopCond(attempt[c], cfg.MaxRetries)
       THEN /\ pc' = [pc EXCEPT ![c] = "auth"]
            /\ calls' = [calls EXCEPT ![c] = @ + 1]
       ELSE /\ pc' = [pc EXCEPT ![c] = "ret"]
            /\ calls' = calls
    /\ UNCHANGED <<adVars, mainVars, cfg, cancelled, sigVars, accPc, attempt, timerFired,
                   expired, succ, snap, gap, cancelInWait,
                   expireInWait, reloaded, wire, sock, written,
                   cancelInFlight>>

\* sendEmail: smtp.PlainAuth("", AuthUser, AuthPass, Host).
SendAuth(c) ==
    /\ Alive
    /\ pc[c] = "auth"
    /\ pc' = [pc EXCEPT ![c] = "tls"]
    /\ UNCHANGED <<adVars, mainVars, cfg, cancelled, sigVars, accPc, attempt, timerFired,
                   expired, calls, succ, snap, gap, cancelInWait,
                   expireInWait, reloaded, wire, sock, written,
                   cancelInFlight>>

\* sendEmail: the tls.Config for Host, and SendWithStartTLS to Host:Port
\* begins.
SendDial(c) ==
    /\ Alive
    /\ pc[c] = "tls"
    /\ pc' = [pc EXCEPT ![c] = "inflight"]
    /\ UNCHANGED <<adVars, mainVars, cfg, cancelled, sigVars, accPc, attempt, timerFired,
                   expired, calls, succ, snap, gap, cancelInWait,
                   expireInWait, reloaded, wire, sock, written,
                   cancelInFlight>>

\* The test whether a failed attempt is followed by a wait.
WillRetryNever(att, maxRetries) == FALSE

WillRetry(att, maxRetries) == att < maxRetries - 1

\* processEmail after sendEmail returned: where it goes on.
AfterSendNoReturn(ok, att, maxRetries) ==
    IF ok THEN "loop"
    ELSE IF WillRetry(att, maxRetries) THEN "sel"
    ELSE "loop"

AfterSend(ok, att, maxRetries) ==
    IF ok THEN "ret"
    ELSE IF WillRetry(att, maxRetries) THEN "sel"
    ELSE "loop"

\* SendWithStartTLS returns, with or without an error, and processEmail
\* acts on it: return on success; on failure the error logs (Host, Port,
\* MaxRetries), then either time.After(RetryDelay) is evaluated for the
\* select, or the loop's post statement attempt++ runs.
SendReturn(c) ==
    /\ Alive
    /\ pc[c] = "inflight"
    /\ \E ok \in BOOLEAN :
         LET nxt == AfterSend(ok, attempt[c], cfg.MaxRetries)
         IN  /\ pc' = [pc EXCEPT ![c] = nxt]
             /\ succ' = [succ EXCEPT ![c] = IF ok THEN @ + 1 ELSE @]
             /\ attempt' = [attempt EXCEPT ![c] = IF nxt = "loop" THEN @ + 1 ELSE @]
             /\ gap' = [gap EXCEPT ![c] = IF ok THEN @ ELSE "none"]
    /\ UNCHANGED <<adVars, mainVars, cfg, cancelled, sigVars, accPc, timerFired, expired,
                   calls, snap, cancelInWait, expireInWait, reloaded, wire, sock, written,
                   cancelInFlight>>

\* processEmail: the select polls its two channels.  If both can proceed
\* either case may be taken; if none can, the goroutine blocks.
SelectPoll(c) ==
    /\ Alive
    /\ pc[c] = "sel"
    /\ LET ready == SelectReady(timerFired[c], ctxDone(c))
       IN  IF ready = {}
           THEN /\ pc' = [pc EXCEPT ![c] = "parked"]
                /\ UNCHANGED <<attempt, gap, timerFired>>
           ELSE \E br \in ready : LeaveSelect({c}, br)
    /\ UNCHANGED <<adVars, mainVars, cfg, cancelled, sigVars, accPc, expired, calls, succ,
                   snap, cancelInWait, expireInWait, reloaded, wire, sock, written,
                   cancelInFlight>>

\* The retry delay passes.  A delivery blocked in the select resumes on the
\* timer case; one that has not polled yet will find the channel ready.
TimerFire(c) ==
    /\ Alive
    /\ pc[c] \in {"sel", "parked"}
    /\ ~timerFired[c]
    /\ IF pc[c] = "parked"
       THEN LeaveSelect({c}, "timer")
       ELSE /\ timerFired' = [timerFired EXCEPT ![c] = TRUE]
            /\ UNCHANGED <<pc, attempt, gap>>
    /\ UNCHANGED <<adVars, mainVars, cfg, cancelled, sigVars, accPc, expired, calls, succ,
                   snap, cancelInWait, expireInWait, reloaded, wire, sock, written,
                   cancelInFlight>>

\* The deadline of emailCtx passes.  A delivery blocked in the select
\* resumes on the ctx.Done() case.
DeadlineExpire(c) ==
    /\ Alive
    /\ pc[c] \in {"start", "loop", "auth", "tls", "inflight", "sel", "parked"}
    /\ ~expired[c]
    /\ expired' = [expired EXCEPT ![c] = TRUE]
    /\ IF pc[c] = "parked" /\ ~cancelled
       THEN LeaveSelect({c}, "ctx")
       ELSE UNCHANGED <<pc, attempt, gap, timerFired>>
    /\ expireInWait' = [expireInWait EXCEPT ![c] = pc[c] \in {"sel", "parked"}]
    /\ UNCHANGED <<adVars, mainVars, cfg, cancelled, sigVars, accPc, calls, succ, snap,
                   cancelInWait, reloaded, wire, sock, written,
                   cancelInFlight>>

\* processEmail has returned: wg.Done, cancel of emailCtx, wg.Wait returns,
\* handleConnection returns and the deferred conn.Close runs.  The
\* delivery's locals, and what is recorded about the delivery, end here.
HandlerReturn(c) ==
    /\ Alive
    /\ pc[c] = "ret"
    /\ pc' = [pc EXCEPT ![c] = AfterWait]
    /\ sock' = [sock EXCEPT ![c] = DeferredClose(@)]
    /\ attempt' = [attempt EXCEPT ![c] = 0]
    /\ timerFired' = [timerFired EXCEPT ![c] = FALSE]
    /\ expired' = [expired EXCEPT ![c] = FALSE]
    /\ calls' = [calls EXCEPT ![c] = 0]
    /\ succ' = [succ EXCEPT ![c] = 0]
    /\ snap' = [snap EXCEPT ![c] = defaultConfig]
    /\ gap' = [gap EXCEPT ![c] = "first"]
    /\ cancelInWait' = [cancelInWait EXCEPT ![c] = FALSE]
    /\ expireInWait' = [expireInWait EXCEPT ![c] = FALSE]
    /\ reloaded' = [reloaded EXCEPT ![c] = FALSE]
    /\ cancelInFlight' = [cancelInFlight EXCEPT ![c] = 0]
    /\ written' = [written EXCEPT ![c] = @ + WrittenAt("ret", AfterWait)]
    /\ UNCHANGED <<adVars, mainVars, cfg, cancelled, sigVars, accPc, wire>>

(* ----------------------------- specification --------------------------- *)

Next ==
    \/ MainLoad
    \/ MainLogInit
    \/ MainListen
    \/ MainCtxDone
    \/ MainShutdown
    \/ SignalArrive
    \/ SigSelect
    \/ ReloadLoad
    \/ ReloadLogInit
    \/ ReloadCopy
    \/ AcceptError
    \/ \E c \in Conns :
         \/ Accept(c)
         \/ Decode(c)
         \/ ProcStart(c)
         \/ LoopCheck(c)
         \/ SendAuth(c)
         \/ SendDial(c)
         \/ SendReturn(c)
         \/ SelectPoll(c)
         \/ TimerFire(c)
         \/ DeadlineExpire(c)
         \/ HandlerReturn(c)

Spec == Init /\ [][Next]_vars

(* -------------------------------- adapters ------------------------------ *)

\* The two programs that submit requests to the server: the sendmail
\* replacement mhrc and the HTTP form adapter submitf.  Each call of their
\* sendToMHRS opens one connection, writes once and closes.

serverVars == <<mainVars, cfg, cancelled, sigVars, accPc, connVars>>

Adapters == {"mhrc", "submitf"}

\* The requests looked at.  The bodies are the nil slice (mhrc with a
\* message without body lines), the empty slice (mhrc with a body of
\* newlines only), "Hi" and "Hi!".
Requests ==
    [ Recipient : {"a@example.com", "b@example.com"},
      Subject   : {"hello", "report"},
      Body      : { NilBytes, Bytes(<<>>), Bytes(<<72, 105>>),
                    Bytes(<<72, 105, 33>>) } ]

\* The alphabet of base64.StdEncoding.
B64 ==
    << "A", "B", "C", "D", "E", "F", "G", "H", "I", "J", "K", "L", "M",
       "N", "O", "P", "Q", "R", "S", "T", "U", "V", "W", "X", "Y", "Z",
       "a", "b", "c", "d", "e", "f", "g", "h", "i", "j", "k", "l", "m",
       "n", "o", "p", "q", "r", "s", "t", "u", "v", "w", "x", "y", "z",
       "0", "1", "2", "3", "4", "5", "6", "7", "8", "9", "+", "/" >>

\* encoding/json writes a []byte as a base64 string with padding: the
\* characters of that string.
RECURSIVE Base64(_)
Base64(b) ==
    IF Len(b) = 0 THEN <<>>
    ELSE IF Len(b) = 1
    THEN << B64[(b[1] \div 4) + 1],
            B64[(b[1] % 4) * 16 + 1], "=", "=" >>
    ELSE IF Len(b) = 2
    THEN << B64[(b[1] \div 4) + 1],
            B64[(b[1] % 4) * 16 + (b[2] \div 16) + 1],
            B64[(b[2] % 16) * 4 + 1], "=" >>
    ELSE << B64[(b[1] \div 4) + 1],
            B64[(b[1] % 4) * 16 + (b[2] \div 16) + 1],
            B64[(b[2] % 16) * 4 + (b[3] \div 64) + 1],
            B64[(b[3] % 64) + 1] >> \o Base64(SubSeq(b, 4, Len(b)))

\* json.Marshal(req) as a sequence of pieces of text: one JSON object, the
\* fields in the order of the struct, without a newline.  A nil []byte is
\* written as null, any other as a base64 string.  The strings of Requests
\* hold no character that JSON escapes.
Marshal(req) ==
    << "{", "\"recipient\":", "\"", req.Recipient, "\"", ",",
            "\"subject\":", "\"", req.Subject, "\"", ",",
            "\"body\":" >>
    \o (IF req.Body.isNil THEN << "null" >>
        ELSE << "\"" >> \o Base64(req.Body.bytes) \o << "\"" >>)
    \o << "}" >>

\* What sendToMHRS hands to conn.Write: mhrc appends '\n' to the JSON,
\* submitf writes the JSON as json.Marshal returned it.
Payload(who, req) ==
    IF who = "mhrc" THEN Append(Marshal(req), "\n") ELSE Marshal(req)

\* An adapter is about to call sendToMHRS with some request; the server is
\* left aside.  The body submitf builds with formatEmailBody is never empty.
AdapterInit ==
    /\ ServerInit
    /\ adWho \in Adapters
    /\ adReq \in Requests
    /\ adWho = "submitf" => adReq.Body.bytes # <<>>
    /\ adPc = "dial"
    /\ adOut = <<>>

\* sendToMHRS: Dial.
AdDial ==
    /\ adPc = "dial"
    /\ \E ok \in BOOLEAN : adPc' = IF ok THEN "deadline" ELSE "failed"
    /\ UNCHANGED <<serverVars, adWho, adReq, adOut>>

\* sendToMHRS: conn.SetWriteDeadline.
AdSetDeadline ==
    /\ adPc = "deadline"
    /\ \E ok \in BOOLEAN : adPc' = IF ok THEN "write" ELSE "failed"
    /\ UNCHANGED <<serverVars, adWho, adReq, adOut>>

\* sendToMHRS: conn.Write returns, without an error after it wrote
\* everything, or with an error after it wrote n bytes, fewer than all; then
\* sendToMHRS returns and the deferred conn.Close runs.
AdWrite ==
    /\ adPc = "write"
    /\ LET data == Payload(adWho, adReq)
       IN  \E n \in 0..Len(data) :
             /\ adOut' = SubSeq(data, 1, n)
             /\ adPc' = IF n = Len(data) THEN "done" ELSE "failed"
    /\ UNCHANGED <<serverVars, adWho, adReq>>

AdapterNext ==
    \/ AdDial
    \/ AdSetDeadline
    \/ AdWrite

AdapterSpec == AdapterInit /\ [][AdapterNext]_vars

(* -------------------------------- claims ------------------------------- *)

\* The configurations config.Load can return.
Loadable == {Load(file).cfg : file \in {g \in Files : ~Load(g).err}}

\* C1: a delivery never calls sendEmail more often than the MaxRetries of
\* the configuration in force when it began, and it is inside attempt k+1
\* only after attempts 1..k were made and all failed.
AttemptsBoundedBySnapshot ==
    \A c \in Conns :
        /\ calls[c] <= snap[c].MaxRetries
        /\ InAttempt(c) => (calls[c] = attempt[c] + 1 /\ succ[c] = 0)

\* C2: once a transport attempt of a delivery has succeeded, the delivery
\* has returned: it is not sending, waiting or about to send again, and no
\* request is sent successfully twice.
NoSendAfterSuccess ==
    \A c \in Conns :
        /\ succ[c] <= 1
        /\ succ[c] = 1 => pc[c] = "ret"

\* C2 witness: a delivery that succeeded on a later attempt than the first
\* and has returned.
SuccessOnLaterAttempt ==
    \E c \in Conns : succ[c] = 1 /\ calls[c] >= 2 /\ pc[c] = "ret"

\* C3 as stated: after the cancellation signal fired while a delivery was
\* in its wait between two attempts, the delivery makes no further attempt
\* and does not wait any longer, whatever the retry-delay timer did.
CancelInWaitStopsRetry ==
    \A c \in Conns : cancelInWait[c] => (~InAttempt(c) /\ pc[c] # "parked")

\* C3 amended: when the retry select of a delivery resolves after the
\* cancellation signal has fired and the retry-delay timer has not expired,
\* the delivery returns (or ends with the process): no further attempt, no
\* further waiting.
CancelObservedStopsRetry ==
    [][ \A c \in Conns :
          ( /\ pc[c] \in {"sel", "parked"}
            /\ cancelled'
            /\ ~timerFired[c]
            /\ pc'[c] # pc[c] ) => pc'[c] \in {"ret", "killed"} ]_vars

\* C3 witness: the cancellation signal fired during the wait of a delivery
\* that had made an attempt, and the delivery returned by the ctx.Done()
\* case of its select.
CancelledInWaitReturned ==
    \E c \in Conns :
        cancelInWait[c] /\ pc[c] = "ret" /\ gap[c] = "ctx" /\ calls[c] >= 1

\* C4: every transport attempt after the first starts only after the
\* retry-delay timer armed at the failure of the attempt before it has
\* expired.
WaitBetweenAttempts ==
    \A c \in Conns : (InAttempt(c) /\ attempt[c] > 0) => gap[c] = "timer"

\* C5: every configuration value a delivery or its handler reads equals the
\* value in the configuration the request was handed over with.
ReadsMatchSnapshot ==
    [][ \A c \in Conns :
          pc'[c] # pc[c] =>
              \A f \in ReadsAt(pc[c], pc'[c]) : cfg[f] = snap'[c][f] ]_vars

\* C6: what a handler or delivery reads from the configuration in one step
\* is part of one complete configuration, never a mix of two.
ReadsNeverMixed ==
    [][ \A c \in Conns :
          pc'[c] # pc[c] =>
              \E k \in Loadable : Read(ReadsAt(pc[c], pc'[c])) =
                                  [f \in ReadsAt(pc[c], pc'[c]) |-> k[f]] ]_vars

\* C7: while reloadConfig loads and checks the candidate, and from the
\* moment a reload has failed, the active configuration does not change.
FailedReloadKeepsConfig ==
    [][ (sigPc \in {"load", "init"} \/ reloadBad') => cfg' = cfg ]_vars

\* C7 witness: a reload has failed and handleSignals is back in its
\* select, with a configuration active that is not the default one.
FailedReloadSeen ==
    reloadBad /\ sigPc = "wait" /\ cfg # defaultConfig /\ mainPc = "running"

\* C8: once the shared cancellation signal has been triggered, no
\* connection is accepted and no handler is dispatched.
NoDispatchAfterCancel ==
    [][ cancelled => \A c \in Conns : pc[c] = "idle" => pc'[c] = "idle" ]_vars

\* C9: a termination signal delivered while the process was running is
\* never lost: it has triggered the cancellation signal or is still in the
\* signal channel for handleSignals to receive.
NoTermSignalLost ==
    termDelivered =>
        (cancelled \/ \E i \in 1..Len(sigChan) : sigChan[i] \in TermSignals)

\* C10: the process does not exit while a connection handler or delivery
\* is still running unless the drain timeout has elapsed.
NoExitWhileBusy ==
    [][ (mainPc' = "exited" /\ \E c \in Conns : Busy(c)) => drainElapsed' ]_vars

\* C11: when the process has exited, its status is zero exactly when a
\* termination signal had triggered the cancellation signal; after a failed
\* configuration load, logger initialisation or listen it is not zero.
ExitStatusTellsFailure ==
    mainPc = "exited" => (exitCode = 0 <=> cancelled)

\* Fairness of main: it is scheduled when it can run, and the deadline of
\* shutdownCtx passes.  The flush itself need never finish.
LiveSpec ==
    Spec /\ WF_vars(MainCtxDone) /\ WF_vars(MainShutdown /\ drainElapsed')

\* C12: once the cancellation signal has been triggered the process
\* eventually exits, even when the log flush never finishes and handlers
\* are still running.
ShutdownTerminates == cancelled ~> (mainPc = "exited")

\* C12 witness: the process has exited by the shutdown deadline, with the
\* flush unfinished and a handler that was still running.
ExitedByDeadline ==
    mainPc = "exited" /\ drainElapsed /\ \E c \in Conns : pc[c] = "killed"

\* C13: a delivery that saw no cancellation, no deadline expiry and no
\* reload makes attempt k+1 only after k failures and k full retry delays,
\* never more than MaxRetries attempts; it returns right after its first
\* success, having made as many calls as attempts, or after exactly
\* MaxRetries failed calls.
QuietDeliveryCounts ==
    \A c \in Conns :
        (~cancelled /\ ~expired[c] /\ ~reloaded[c]) =>
            /\ InAttempt(c) =>
                 /\ calls[c] = attempt[c] + 1
                 /\ calls[c] <= snap[c].MaxRetries
                 /\ succ[c] = 0
                 /\ attempt[c] > 0 => gap[c] = "timer"
            /\ pc[c] = "ret" =>
                 IF succ[c] = 1
                 THEN /\ calls[c] = attempt[c] + 1
                      /\ calls[c] <= snap[c].MaxRetries
                      /\ calls[c] > 1 => gap[c] = "timer"
                 ELSE /\ succ[c] = 0
                      /\ calls[c] = snap[c].MaxRetries

\* C13 witness: undisturbed, the transport failed three times under
\* MaxRetries = 3 and the delivery has returned.
ExhaustedQuietly ==
    \E c \in Conns :
        /\ pc[c] = "ret" /\ succ[c] = 0 /\ calls[c] = 3
        /\ snap[c].MaxRetries = 3
        /\ ~cancelled /\ ~expired[c] /\ ~reloaded[c]

\* C14: the acceptor loop ends only by an Accept that fails while the
\* cancellation signal is active, and that step touches neither the
\* cancellation signal nor main nor any handler; while the signal is not
\* active the acceptor stays in its loop and the server keeps running.
AcceptFailureStopsOnlyOnCancel ==
    [][ /\ (accPc = "accept" /\ accPc' = "stopped") =>
               (cancelled /\ cancelled' /\ mainPc' = mainPc /\ pc' = pc)
        /\ (accPc = "accept" /\ ~cancelled) =>
               (accPc' = "accept" /\ mainPc' = "running") ]_vars

\* C14 witness: an Accept failed after the cancellation signal was
\* triggered and the acceptor has left its loop, the process still running.
AcceptorStopped ==
    accPc = "stopped" /\ cancelled /\ Alive

\* C15: a handler enters Decode only when its connection is accepted and a
\* delivery starts only from that one Decode; the decoder takes exactly one
\* object off the connection, and what the client sent after it is never
\* taken.
OneDecodePerConnection ==
    [][ \A c \in Conns :
          /\ pc'[c] = "idle" => pc[c] = "idle"
          /\ pc'[c] = "decode" => pc[c] \in {"idle", "decode"}
          /\ pc'[c] = "start" => pc[c] \in {"decode", "start"}
          /\ wire'[c] # wire[c] =>
                \/ pc[c] = "idle"
                \/ pc[c] = "decode" /\ pc'[c] = "start" /\ wire'[c] = Tail(wire[c])
                \/ pc'[c] = "killed" ]_vars

\* C15 witness: the handler of a connection on which two requests were sent
\* has finished; the second request is still undecoded.
SecondObjectLeftUnread ==
    \E c \in Conns : pc[c] = "closed" /\ wire[c] = <<"good">>

\* C16: when Decode fails the handler returns at once: the connection is
\* closed, no sendEmail call was made, and the finished handler never
\* starts a delivery.
DecodeFailureClosesWithoutDelivery ==
    [][ \A c \in Conns :
          /\ ( /\ pc[c] = "decode"
               /\ wire[c] # <<>>
               /\ Head(wire[c]) = "bad"
               /\ pc'[c] # "decode" ) =>
                 ( /\ pc'[c] \in {"closed", "killed"}
                   /\ calls'[c] = 0
                   /\ sock'[c] = "closed" )
          /\ pc[c] = "closed" => (pc'[c] = "closed" /\ calls'[c] = 0) ]_vars

\* C16 witness: a handler has returned from a failed Decode; what it could
\* not decode is all the client sent.
DecodeFailed ==
    \E c \in Conns : pc[c] = "closed" /\ wire[c] = <<"bad">> /\ sock[c] = "closed"

\* C17: a handler that has returned has closed its connection.
HandlerExitClosesConnection ==
    \A c \in Conns : pc[c] = "closed" => sock[c] = "closed"

\* C17 witness: a handler has returned after its delivery, everything the
\* client sent was decoded, and the connection is closed.
ClosedAfterDelivery ==
    \E c \in Conns : pc[c] = "closed" /\ wire[c] = <<>> /\ sock[c] = "closed"

\* C18 as stated: after the deadline of emailCtx passed while a delivery
\* was in its wait between two attempts, the delivery makes no further
\* attempt and does not wait any longer.
DeadlineInWaitStopsRetry ==
    \A c \in Conns : expireInWait[c] => (~InAttempt(c) /\ pc[c] # "parked")

\* C18 amended: emailCtx is done once the parent is cancelled or the
\* deadline has passed, so no delivery stays blocked in the retry select
\* then; and when the select resolves with the deadline passed and the
\* retry-delay timer not expired, the delivery returns (or ends with the
\* process) without a further attempt.
DeadlineObservedStopsRetry ==
    [][ \A c \in Conns :
          /\ ( /\ pc[c] \in {"sel", "parked"}
               /\ expired'[c]
               /\ ~timerFired[c]
               /\ pc'[c] # pc[c] ) => pc'[c] \in {"ret", "killed"}
          /\ pc'[c] = "parked" => ~(cancelled' \/ expired'[c]) ]_vars

\* C18 witness: the deadline passed during the wait of a delivery, without
\* any cancellation, and the delivery returned by the ctx.Done() case.
DeadlineInWaitReturned ==
    \E c \in Conns :
        /\ expireInWait[c] /\ ~cancelled
        /\ pc[c] = "ret" /\ gap[c] = "ctx" /\ calls[c] >= 1

\* C19: neither the step in which handleSignals receives SIGHUP nor any
\* step taken while reloadConfig runs changes the lifecycle: the
\* cancellation signal stays untriggered, main stays at <-ctx.Done() with
\* the listener open, the acceptor stays in its loop, and handleSignals
\* goes on to its select again.
ReloadKeepsLifecycle ==
    [][ ( \/ sigPc \in {"load", "init", "copy"}
          \/ ( /\ sigPc = "wait"
               /\ sigChan # <<>>
               /\ Head(sigChan) = "SIGHUP"
               /\ sigChan' = Tail(sigChan) ) ) =>
            ( /\ ~cancelled /\ ~cancelled'
              /\ mainPc = "running" /\ mainPc' = "running"
              /\ accPc = "accept" /\ accPc' = "accept"
              /\ sigPc' \in {"load", "init", "copy", "wait"} ) ]_vars

\* C19 witness: a reload has rewritten the configuration under a running
\* delivery and handleSignals is back in its select; nothing is cancelled
\* and the acceptor accepts.
ReloadedAndRunning ==
    /\ \E c \in Conns : reloaded[c]
    /\ sigPc = "wait" /\ ~cancelled /\ accPc = "accept" /\ mainPc = "running"

\* C20: once the cancellation signal is triggered it stays triggered,
\* handleSignals has returned and does not run again, and the active
\* configuration is not written any more, whatever signals still arrive.
ShuttingDownIsTerminal ==
    [][ cancelled =>
            ( /\ cancelled'
              /\ sigPc \in {"exit", "off"} /\ sigPc' \in {"exit", "off"}
              /\ cfg' = cfg ) ]_vars

\* C20 witness: a reload signal has arrived after the cancellation signal
\* was triggered and lies in the signal channel, the process not yet gone.
ReloadSignalAfterCancel ==
    cancelled /\ Alive /\ sigChan = <<"SIGHUP">>

\* C21: the server has written nothing to any connection, and what a
\* caller sees of a finished handler is a closed connection with zero bytes
\* received, whatever became of the request.
CallerSeesOnlyClose ==
    \A c \in Conns :
        /\ written[c] = 0
        /\ pc[c] = "closed" => <<sock[c], written[c]>> = <<"closed", 0>>

\* C21 witness: a handler has finished after a delivery of the first of
\* two requests; the caller has its connection closed and received nothing.
ClosedSilently ==
    \E c \in Conns :
        pc[c] = "closed" /\ wire[c] = <<"good">> /\ sock[c] = "closed" /\ written[c] = 0

\* C22: the configuration the server reads always has a non-empty SMTP
\* host, port, from-address, user and password and listen address, and a
\* positive timeout, retry delay and MaxRetries, also while a reload is
\* writing it; so no delivery runs with MaxRetries <= 0.
ConfigAlwaysValid ==
    /\ cfg.Host # "" /\ cfg.Port # "" /\ cfg.FromAddr # ""
    /\ cfg.AuthUser # "" /\ cfg.AuthPass # ""
    /\ cfg.InternalAddr # ""
    /\ cfg.Timeout > 0 /\ cfg.RetryDelay > 0 /\ cfg.MaxRetries > 0

\* C22 witness: a reload is half-way through writing the configuration, so
\* that cfg is none of the configurations Load returned, while a delivery
\* runs.
TornConfigUnderDelivery ==
    sigPc = "copy" /\ cfg \notin Loadable /\ \E c \in Conns : InDelivery(c)

\* C23: what an adapter has written when sendToMHRS returns without an
\* error is exactly one JSON object, the request, followed by a newline;
\* and at no time has it written anything that is not the beginning of
\* that.
AdapterSendsOneTerminatedObject ==
    adWho \in Adapters =>
        LET line == Append(Marshal(adReq), "\n")
        IN  /\ adPc = "done" => adOut = line
            /\ Len(adOut) <= Len(line)
            /\ adOut = SubSeq(line, 1, Len(adOut))

\* C24: the step that triggers the cancellation signal releases every
\* handler blocked in Decode: after it no handler is in Decode on a
\* connection whose peer has sent nothing.
NoDecodeWaitAfterCancel ==
    [][ (~cancelled /\ cancelled') =>
            \A c \in Conns : ~(pc'[c] = "decode" /\ wire'[c] = <<>>) ]_vars

\* C25 as stated: after the cancellation signal fired during attempt k of a
\* delivery, the delivery makes no attempt k+1.
CancelInFlightStopsDelivery ==
    \A c \in Conns : cancelInFlight[c] > 0 => calls[c] = cancelInFlight[c]

\* C25 amended: the step that triggers the cancellation signal leaves an
\* attempt in flight as it is; when that attempt has failed and the retry
\* select resolves before the retry-delay timer has expired, the delivery
\* returns (or ends with the process); and a further attempt is made only
\* after the select took its timer case.
CancelInFlightRetriesOnlyByTimer ==
    [][ \A c \in Conns :
          /\ (~cancelled /\ cancelled' /\ InAttempt(c)) =>
                 (pc'[c] = pc[c] /\ calls'[c] = calls[c] /\ succ'[c] = succ[c])
          /\ ( /\ cancelInFlight[c] > 0
               /\ pc[c] = "sel"
               /\ ~timerFired[c]
               /\ pc'[c] # pc[c] ) => pc'[c] \in {"ret", "killed"}
          /\ (cancelInFlight[c] > 0 /\ pc[c] = "loop" /\ pc'[c] = "auth") =>
                 gap[c] = "timer" ]_vars

\* C25 witness: the cancellation signal fired during an attempt, the
\* attempt failed, and the delivery returned from the select without
\* another attempt.
CancelledInFlightReturned ==
    \E c \in Conns :
        /\ cancelInFlight[c] > 0 /\ calls[c] = cancelInFlight[c]
        /\ pc[c] = "ret" /\ succ[c] = 0 /\ gap[c] = "ctx"

\* C26: the first evaluation of the loop condition of a delivery leads into
\* sendEmail whatever the state of the context (only the exit of the
\* process can come first), and no delivery returns without a sendEmail
\* call.
FirstAttemptAlwaysMade ==
    [][ \A c \in Conns :
          /\ (pc[c] = "loop" /\ attempt[c] = 0 /\ pc'[c] # pc[c]) =>
                 pc'[c] \in {"auth", "killed"}
          /\ pc'[c] = "ret" => calls'[c] >= 1 ]_vars

\* C26 witness: the cancellation signal was triggered and the deadline had
\* passed, neither during an attempt nor during a wait, and the delivery is
\* in its first attempt.
FirstAttemptDespiteCancel ==
    \E c \in Conns :
        /\ cancelled /\ cancelInFlight[c] = 0
        /\ expired[c] /\ ~expireInWait[c]
        /\ pc[c] = "auth" /\ calls[c] = 1

\* Fairness of a delivery: its goroutine is scheduled when it can run, each
\* transport call returns, and the retry delay passes.
DeliverySpec ==
    Spec /\ \A c \in Conns :
              /\ WF_vars(ProcStart(c))
              /\ WF_vars(LoopCheck(c))
              /\ WF_vars(SendAuth(c))
              /\ WF_vars(SendDial(c))
              /\ WF_vars(SendReturn(c))
              /\ WF_vars(SelectPoll(c))
              /\ WF_vars(TimerFire(c))

\* C27: a delivery returns only after a successful attempt, when the loop
\* condition fails, or from a wait ended by ctx.Done(); and every delivery
\* eventually returns (or ends with the process), whatever reloads do to
\* MaxRetries and RetryDelay meanwhile.
DeliveryReturns ==
    /\ [][ \A c \in Conns :
             (InDelivery(c) /\ pc'[c] = "ret") =>
                 \/ succ'[c] = 1 /\ pc[c] = "inflight"
                 \/ pc[c] = "loop" /\ ~LoopCond(attempt[c], cfg.MaxRetries)
                 \/ gap'[c] = "ctx" /\ pc[c] \in {"sel", "parked"} ]_vars
    /\ \A c \in Conns : InDelivery(c) ~> (pc[c] \in {"ret", "killed"})

\* C27 witness: a delivery has returned after a reload, made while it ran,
\* that changed MaxRetries.
ReturnedAfterReload ==
    \E c \in Conns :
        /\ pc[c] = "ret" /\ reloaded[c]
        /\ cfg.MaxRetries # snap[c].MaxRetries
        /\ calls[c] >= 2

====
